---- MODULE Spec2Model ----
(***************************************************************************)
(* A model of neurophox/meshmodel.py: the MeshModel base class (its        *)
(* constructor, mzi_error_matrices and mzi_error_tensors), the topology    *)
(* variants' tunable-count policies, and the process-wide random source    *)
(* that mzi_error_matrices seeds and draws from.                           *)
(*                                                                         *)
(* Arrays are records [shape |-> <<rows, cols>>, data |-> rows of cols].   *)
(* Error magnitudes are integers: finite floats, in units of pi/4 where a  *)
(* trigonometric function is applied to them.                              *)
(***************************************************************************)
EXTENDS Integers, Sequences, FiniteSets, TLC

VARIABLES
    objs,     \* ModelIds -> the MeshModel object held in that slot, or NoObj
    rng,      \* the state of the process-wide random source (np.random)
    call,     \* the last call made on a slot: its name, its arguments, the object
              \* and the random source before it
    ret,      \* what the last call returned (NoRet when it raised)
    raised,   \* the exception the last call raised (NoErr when it returned)
    thr       \* per thread: its position inside mzi_error_matrices and its locals

vars == <<objs, rng, call, ret, raised, thr>>

(***************************************************************************)
(* Bounds of the model.                                                    *)
(***************************************************************************)
MaxUnits == 4
MaxLayers == 2
RngMod == 7
MaxBlocks == 2
MaxBlockSize == 3

ModelIds == {1, 2}
Threads == {1, 2}

Min(a, b) == IF a < b THEN a ELSE b
Max(a, b) == IF a > b THEN a ELSE b

(***************************************************************************)
(* Values.                                                                 *)
(***************************************************************************)
NoneVal == [tag |-> "None"]
Some(v) == [tag |-> "Some", v |-> v]

NoObj == [kind |-> "none"]
NoRet == [kind |-> "none"]
NoCall == [op |-> "none"]
NoErr == [type |-> "none", msg |-> ""]

\* config.TEST_SEED, imported at line 12
TEST_SEED == 31415

(***************************************************************************)
(* numpy arrays.                                                           *)
(***************************************************************************)
\* np.zeros((r, c))
Zeros(r, c) ==
    [shape |-> <<r, c>>, data |-> [i \in 1..r |-> [j \in 1..c |-> 0]]]

\* a * b for two arrays of the same shape (element-wise)
MulArr(a, b) ==
    [shape |-> a.shape,
     data |-> [i \in 1..a.shape[1] |-> [j \in 1..a.shape[2] |->
                  a.data[i][j] * b.data[i][j]]]]

\* a * s for an array and a python scalar
ScaleArr(a, s) ==
    [shape |-> a.shape,
     data |-> [i \in 1..a.shape[1] |-> [j \in 1..a.shape[2] |->
                  a.data[i][j] * s]]]

\* The stop of the slice [:t] on a row of K entries: a negative stop counts
\* from the end, a stop past the end is clipped.
SliceStop(t, K) ==
    IF t < 0 THEN Max(0, t + K) ELSE Min(t, K)

\* faulty variant: the slice taken one entry too long, mask[layer][:t + 1] = 1
SetRowPrefixInclusive(mask, layer, t) ==
    LET K == mask.shape[2]
    IN [mask EXCEPT !.data[layer + 1] =
            [k \in 1..K |-> IF k <= SliceStop(t, K) + 1 THEN 1 ELSE @[k]]]

\* mask[layer][:t] = 1 (layer is 0-based, as in the source)
SetRowPrefix(mask, layer, t) ==
    LET K == mask.shape[2]
    IN [mask EXCEPT !.data[layer + 1] =
            [k \in 1..K |-> IF k <= SliceStop(t, K) THEN 1 ELSE @[k]]]

(***************************************************************************)
(* MeshModel.__init__                                                      *)
(***************************************************************************)
\* the loop of lines 52-53, entered at `layer`; num_tunable[layer] is read
\* before the slice is assigned, and fails past the end of num_tunable
RECURSIVE MaskLoop(_, _, _, _)
MaskLoop(mask, num_tunable, layer, num_layers) ==
    IF layer >= num_layers
    THEN [raised |-> NoErr, mask |-> mask]
    ELSE IF layer >= Len(num_tunable)
    THEN [raised |-> [type |-> "IndexError", msg |-> "index out of bounds"],
          mask |-> mask]
    ELSE MaskLoop(SetRowPrefix(mask, layer, num_tunable[layer + 1]),
                  num_tunable, layer + 1, num_layers)

\* a: [rows, cols: the shape of perm_idx; num_tunable: NoneVal or Some(seq);
\*     bs_error; testing; use_different_errors]
MeshModelInit(a) ==
    LET units == a.cols
        num_layers == a.rows - 1
        num_tunable == IF a.num_tunable = NoneVal
                       THEN [l \in 1..num_layers |-> units \div 2]
                       ELSE a.num_tunable.v
        loop == MaskLoop(Zeros(num_layers, units \div 2), num_tunable, 0, num_layers)
        self == [kind |-> "MeshModel",
                 units |-> units,
                 num_layers |-> num_layers,
                 num_tunable |-> num_tunable,
                 bs_error |-> a.bs_error,
                 testing |-> a.testing,
                 use_different_errors |-> a.use_different_errors,
                 mask |-> loop.mask]
    IN IF loop.raised # NoErr
       THEN [raised |-> loop.raised, obj |-> NoObj]
       ELSE IF Len(num_tunable) # num_layers
       THEN [raised |-> [type |-> "ValueError",
                         msg |-> "num_mzis, perm_idx num_layers mismatch."],
             obj |-> NoObj]
       ELSE IF units < 2
       THEN [raised |-> [type |-> "ValueError", msg |-> "units must be at least 2."],
             obj |-> NoObj]
       ELSE [raised |-> NoErr, obj |-> self]

(***************************************************************************)
(* The process-wide random source. A seed fixes the stream that follows    *)
(* it; every sample drawn advances the state. Samples are small integers.  *)
(***************************************************************************)
\* np.random.seed(x)
RngSeed(x) == x % RngMod

RngNext(s) == (s + 1) % RngMod

RECURSIVE RngIter(_, _)
RngIter(s, n) ==
    IF n = 0 THEN s ELSE RngNext(RngIter(s, n - 1))

\* the sample read off state s: -1, 0 or 1
Sample(s) == ((s * s + s \div 2) % 3) - 1

\* np.random.randn(r, c) from state s: the array drawn (row-major) and the
\* state the source is left in
Randn(s, r, c) ==
    [arr |-> [shape |-> <<r, c>>,
              data |-> [i \in 1..r |-> [j \in 1..c |->
                            Sample(RngIter(s, (i - 1) * c + j))]]],
     rng |-> RngIter(s, r * c)]

(***************************************************************************)
(* MeshModel.mzi_error_matrices                                            *)
(***************************************************************************)
\* faulty variant: line 87 left out
SeedNever(self, s) == s

\* line 87
SeedIfTesting(self, s) ==
    IF self.testing THEN RngSeed(TEST_SEED) ELSE s

\* faulty variant: line 93 left out
ReseedNever(self, s) == s

\* line 93
ReseedIfTesting(self, s) ==
    IF self.testing THEN RngSeed(TEST_SEED + 1) ELSE s

\* line 98
ArrayShapeMismatch(bs_error, mask) ==
    bs_error.arr.shape # mask.shape

\* line 102
PairShapeMismatch(bs_error, mask) ==
    bs_error.l.shape # mask.shape \/ bs_error.r.shape # mask.shape

\* faulty variant: the mask not applied
Unmasked(e, mask) == e

\* line 107: one element of the returned pair
Masked(e, mask) == MulArr(e, mask)

\* faulty variant: ValueError for the AttributeError of lines 99 and 103
ShapeErrorAsValueError ==
    [type |-> "ValueError", msg |-> "bs_error.shape and mask.shape should be the same."]

\* lines 99-100 and 103-104
ShapeError ==
    [type |-> "AttributeError", msg |-> "bs_error.shape and mask.shape should be the same."]

BsTypeError ==
    [type |-> "TypeError", msg |-> "bs_error must be float, ndarray or (ndarray, ndarray)."]

ErrorPair(e_l, e_r) == [kind |-> "pair", e_l |-> e_l, e_r |-> e_r]

\* The property read on `self` with the random source in state s: what it
\* raises or returns, the state it leaves the source in, and `self` after it.
MziErrorMatrices(self, s) ==
    LET s0 == SeedIfTesting(self, s)
        mask == self.mask
        L == self.num_layers
        K == self.units \div 2
        bs_error == self.bs_error
    IN CASE bs_error.kind = "scalar" ->
              LET dl == Randn(s0, L, K)
                  e_l == ScaleArr(dl.arr, bs_error.v)
                  dr == Randn(ReseedIfTesting(self, dl.rng), L, K)
                  e_r == IF self.use_different_errors
                         THEN ScaleArr(dr.arr, bs_error.v)
                         ELSE e_l
              IN [raised |-> NoErr,
                  ret |-> ErrorPair(Masked(e_l, mask), Masked(e_r, mask)),
                  rng |-> IF self.use_different_errors THEN dr.rng ELSE dl.rng,
                  obj |-> self]
         [] bs_error.kind = "array" ->
              IF ArrayShapeMismatch(bs_error, mask)
              THEN [raised |-> ShapeError, ret |-> NoRet, rng |-> s0, obj |-> self]
              ELSE [raised |-> NoErr,
                    ret |-> ErrorPair(Masked(bs_error.arr, mask),
                                      Masked(bs_error.arr, mask)),
                    rng |-> s0,
                    obj |-> self]
         [] bs_error.kind = "tuple" ->
              IF PairShapeMismatch(bs_error, mask)
              THEN [raised |-> ShapeError, ret |-> NoRet, rng |-> s0, obj |-> self]
              ELSE [raised |-> NoErr,
                    ret |-> ErrorPair(Masked(bs_error.l, mask),
                                      Masked(bs_error.r, mask)),
                    rng |-> s0,
                    obj |-> self]
         [] OTHER ->
              [raised |-> BsTypeError, ret |-> NoRet, rng |-> s0, obj |-> self]

(***************************************************************************)
(* Exact values of sin and cos at the multiples of pi/4, and their         *)
(* products: [sg, num, den] is the real sg * sqrt(num / den), in lowest    *)
(* terms.                                                                  *)
(***************************************************************************)
RECURSIVE Gcd(_, _)
Gcd(a, b) ==
    IF b = 0 THEN a ELSE Gcd(b, a % b)

Real(sg, num, den) ==
    IF sg = 0 \/ num = 0
    THEN [sg |-> 0, num |-> 0, den |-> 1]
    ELSE LET g == Gcd(num, den)
         IN [sg |-> sg, num |-> num \div g, den |-> den \div g]

RZero == Real(0, 0, 1)
ROne == Real(1, 1, 1)
RTwo == Real(1, 4, 1)
RSqrtHalf == Real(1, 1, 2)

RNeg(x) == Real(-x.sg, x.num, x.den)
RMul(x, y) == Real(x.sg * y.sg, x.num * y.num, x.den * y.den)

\* sin(a * pi/4)
SinQ(a) ==
    CASE a % 8 = 0 -> RZero
      [] a % 8 = 1 -> RSqrtHalf
      [] a % 8 = 2 -> ROne
      [] a % 8 = 3 -> RSqrtHalf
      [] a % 8 = 4 -> RZero
      [] a % 8 = 5 -> RNeg(RSqrtHalf)
      [] a % 8 = 6 -> RNeg(ROne)
      [] OTHER -> RNeg(RSqrtHalf)

\* cos(a * pi/4) = sin(a * pi/4 + pi/2)
CosQ(a) == SinQ(a + 2)

\* np.sin(np.pi / 4 + e), np.cos(np.pi / 4 + e), element-wise; e in units of pi/4
SinArr(e) ==
    [shape |-> e.shape,
     data |-> [i \in 1..e.shape[1] |-> [j \in 1..e.shape[2] |->
                  SinQ(1 + e.data[i][j])]]]

CosArr(e) ==
    [shape |-> e.shape,
     data |-> [i \in 1..e.shape[1] |-> [j \in 1..e.shape[2] |->
                  CosQ(1 + e.data[i][j])]]]

\* a * b for two arrays of reals of the same shape
RMulArr(a, b) ==
    [shape |-> a.shape,
     data |-> [i \in 1..a.shape[1] |-> [j \in 1..a.shape[2] |->
                  RMul(a.data[i][j], b.data[i][j])]]]

\* 2 * a
RDouble(a) ==
    [shape |-> a.shape,
     data |-> [i \in 1..a.shape[1] |-> [j \in 1..a.shape[2] |->
                  RMul(RTwo, a.data[i][j])]]]

\* helpers.to_stripe_array(a, units): the coefficient of device k of a layer
\* on both of its ports, 2k and 2k + 1 (0-based); a port without a device
\* carries 0
ToStripeArray(a, units) ==
    [shape |-> <<a.shape[1], units>>,
     data |-> [i \in 1..a.shape[1] |-> [n \in 1..units |->
                  IF (n - 1) \div 2 + 1 <= a.shape[2]
                  THEN a.data[i][(n - 1) \div 2 + 1]
                  ELSE RZero]]]

(***************************************************************************)
(* MeshModel.mzi_error_tensors                                             *)
(***************************************************************************)
\* faulty variant: cs and sc returned in each other's place
TensorTupleSwapped(ss, cs, sc, cc) == <<ss, sc, cs, cc>>

\* line 118
TensorTuple(ss, cs, sc, cc) == <<ss, cs, sc, cc>>

MziErrorTensors(self, s) ==
    LET m == MziErrorMatrices(self, s)
        e_l == m.ret.e_l
        e_r == m.ret.e_r
        cc == RDouble(ToStripeArray(RMulArr(CosArr(e_l), CosArr(e_r)), self.units))
        cs == RDouble(ToStripeArray(RMulArr(CosArr(e_l), SinArr(e_r)), self.units))
        sc == RDouble(ToStripeArray(RMulArr(SinArr(e_l), CosArr(e_r)), self.units))
        ss == RDouble(ToStripeArray(RMulArr(SinArr(e_l), SinArr(e_r)), self.units))
    IN IF m.raised # NoErr
       THEN [raised |-> m.raised, ret |-> NoRet, rng |-> m.rng, obj |-> m.obj,
             locals |-> NoRet]
       ELSE [raised |-> NoErr,
             ret |-> [kind |-> "tensors", out |-> TensorTuple(ss, cs, sc, cc)],
             rng |-> m.rng,
             obj |-> m.obj,
             locals |-> m.ret]

(***************************************************************************)
(* Inputs.                                                                 *)
(***************************************************************************)
Scalar(v) == [kind |-> "scalar", v |-> v]
Ndarray(a) == [kind |-> "array", arr |-> a]
Pair(a, b) == [kind |-> "tuple", l |-> a, r |-> b]
\* a value that is no float, int, ndarray or tuple (None, a str, a list)
OtherValue == [kind |-> "other"]

\* every num_tunable of at most n entries over lo..hi
NumTunableSeqs(n, lo, hi) ==
    UNION {[1..len -> lo..hi] : len \in 0..n}

\* constructor arguments of any shape, accepted or not
CtorArgsAny ==
    {[rows |-> rows, cols |-> cols, num_tunable |-> nt, bs_error |-> Scalar(0),
      testing |-> FALSE, use_different_errors |-> FALSE] :
        rows \in 1..(MaxLayers + 1), cols \in 0..MaxUnits,
        nt \in {NoneVal} \cup
               {Some(v) : v \in NumTunableSeqs(MaxLayers + 1, -1, MaxUnits \div 2 + 1)}}

\* an error array of r rows and c columns with no zero entry
ErrorArray(r, c, p) ==
    [shape |-> <<r, c>>,
     data |-> [i \in 1..r |-> [j \in 1..c |-> IF (i + j + p) % 2 = 0 THEN 1 ELSE -2]]]

\* the shape (L, K) of the mask, and the shapes one row or one column larger
ErrorShapes(L, K) == {<<L, K>>, <<L + 1, K>>, <<L, K + 1>>}

\* every kind of bs_error for a mesh of L layers and K slots: scalars, single
\* arrays and pairs of arrays of the mask's shape or another, and a value of
\* no supported type
BsErrors(L, K) ==
    {Scalar(0), Scalar(1), Scalar(2), OtherValue}
        \cup {Ndarray(ErrorArray(sh[1], sh[2], p)) : sh \in ErrorShapes(L, K), p \in {0, 1}}
        \cup {Pair(ErrorArray(sl[1], sl[2], 0), ErrorArray(sr[1], sr[2], 1)) :
                sl \in ErrorShapes(L, K), sr \in ErrorShapes(L, K)}

\* (testing, use_different_errors); use_different_errors is read for a
\* scalar bs_error only
FlagsFor(e) ==
    {f \in BOOLEAN \X BOOLEAN : f[2] => e.kind = "scalar"}

\* constructor arguments that pass the constructor's checks, with every kind
\* of bs_error
CtorArgsFor(L, N) ==
    UNION {{[rows |-> L + 1, cols |-> N, num_tunable |-> nt, bs_error |-> e,
             testing |-> f[1], use_different_errors |-> f[2]] :
                nt \in {NoneVal} \cup {Some(v) : v \in [1..L -> 0..(N \div 2)]},
                f \in FlagsFor(e)} :
           e \in BsErrors(L, N \div 2)}

CtorArgsAccepted ==
    UNION {CtorArgsFor(L, N) : L \in 1..MaxLayers, N \in 2..MaxUnits}

(***************************************************************************)
(* The constructor as an operation of the program: a slot is constructed   *)
(* once, and an exception leaves it empty.                                 *)
(***************************************************************************)
Construct(m, a) ==
    /\ objs[m] = NoObj
    /\ LET r == MeshModelInit(a)
       IN /\ objs' = [objs EXCEPT ![m] = r.obj]
          /\ raised' = r.raised
    /\ call' = [op |-> "MeshModel", m |-> m, args |-> a, pre |-> NoObj]
    /\ ret' = NoRet
    /\ UNCHANGED <<rng, thr>>

NoThreads == [t \in Threads |-> [pc |-> "off"]]

InitCtor ==
    /\ objs = [m \in ModelIds |-> NoObj]
    /\ rng = 0
    /\ call = NoCall
    /\ ret = NoRet
    /\ raised = NoErr
    /\ thr = NoThreads

\* MeshModel(perm_idx, num_tunable=...) with any arguments
ConstructAny ==
    /\ call = NoCall
    /\ \E a \in CtorArgsAny : Construct(1, a)

NextCtor == ConstructAny

SpecCtor == InitCtor /\ [][NextCtor]_vars

CtorSucceeded ==
    call.op = "MeshModel" /\ raised = NoErr

(***************************************************************************)
(* C1: every construction that succeeds with a num_tunable of L entries in *)
(* 0..floor(N/2) leaves a mask of shape (L, floor(N/2)) with mask[l][k] = 1 *)
(* exactly when k < num_tunable[l]; with num_tunable omitted every entry   *)
(* of the mask is 1.                                                       *)
(***************************************************************************)
C1_MaskMatchesNumTunable ==
    CtorSucceeded =>
        LET a == call.args
            L == a.rows - 1
            K == a.cols \div 2
            mask == objs[call.m].mask
        IN /\ mask.shape = <<L, K>>
           /\ Len(mask.data) = L
           /\ \A l \in 1..L : Len(mask.data[l]) = K
           /\ a.num_tunable = NoneVal =>
                \A l \in 1..L : \A k \in 1..K : mask.data[l][k] = 1
           /\ (/\ a.num_tunable # NoneVal
               /\ \A l \in 1..Len(a.num_tunable.v) :
                    a.num_tunable.v[l] \in 0..K) =>
                /\ Len(a.num_tunable.v) = L
                /\ \A l \in 1..L : \A k \in 1..K :
                     /\ mask.data[l][k] \in {0, 1}
                     /\ mask.data[l][k] = 1 <=> (k - 1) < a.num_tunable.v[l]

\* a layer with both tunable and fixed slots, and one with none tunable
C1_Witness ==
    /\ CtorSucceeded
    /\ call.args.num_tunable # NoneVal
    /\ call.args.cols = 4
    /\ call.args.num_tunable.v = <<1, 0>>
    /\ objs[call.m].mask.data = <<(<<1, 0>>), (<<0, 0>>)>>

(***************************************************************************)
(* C2: a num_tunable whose length differs from L, shorter or longer, and   *)
(* units < 2, each make the constructor fail with its ValueError, and no   *)
(* object is returned.                                                     *)
(***************************************************************************)
C2_BadConfigRaisesValueError ==
    (/\ call.op = "MeshModel"
     /\ \/ call.args.cols < 2
        \/ /\ call.args.num_tunable # NoneVal
           /\ Len(call.args.num_tunable.v) # call.args.rows - 1) =>
        /\ raised.type = "ValueError"
        /\ objs[call.m] = NoObj

(***************************************************************************)
(* Reading the mzi_error_matrices property of the object in slot m.        *)
(***************************************************************************)
Access(m) ==
    /\ objs[m] # NoObj
    /\ LET r == MziErrorMatrices(objs[m], rng)
       IN /\ objs' = [objs EXCEPT ![m] = r.obj]
          /\ rng' = r.rng
          /\ ret' = r.ret
          /\ raised' = r.raised
    /\ call' = [op |-> "mzi_error_matrices", m |-> m, pre |-> objs[m], rng0 |-> rng]
    /\ UNCHANGED thr

(***************************************************************************)
(* Reading the mzi_error_tensors property of the object in slot m. The     *)
(* call record keeps the (e_l, e_r) the property worked from.              *)
(***************************************************************************)
Tensors(m) ==
    /\ objs[m] # NoObj
    /\ LET r == MziErrorTensors(objs[m], rng)
       IN /\ objs' = [objs EXCEPT ![m] = r.obj]
          /\ rng' = r.rng
          /\ ret' = r.ret
          /\ raised' = r.raised
          /\ call' = [op |-> "mzi_error_tensors", m |-> m, pre |-> objs[m],
                      locals |-> r.locals]
    /\ UNCHANGED thr

Init ==
    /\ objs = [m \in ModelIds |-> NoObj]
    /\ rng \in 0..(RngMod - 1)
    /\ call = NoCall
    /\ ret = NoRet
    /\ raised = NoErr
    /\ thr = NoThreads

\* MeshModel(perm_idx, ...) with arguments the constructor accepts
ConstructAccepted ==
    /\ call = NoCall
    /\ \E a \in CtorArgsAccepted : Construct(1, a)

Next ==
    \/ ConstructAccepted
    \/ Access(1)

Spec == Init /\ [][Next]_vars

AccessReturned ==
    call.op = "mzi_error_matrices" /\ raised = NoErr

(***************************************************************************)
(* C4: whatever kind of bs_error is accepted, both returned arrays are 0   *)
(* at every slot (l, k) with k >= num_tunable[l]; for a single array of    *)
(* the mask's shape every access returns e_l = e_r = array * mask and      *)
(* leaves the object as it was.                                            *)
(***************************************************************************)
C4_ErrorsMasked ==
    AccessReturned =>
        LET self == call.pre
            L == self.num_layers
            K == self.units \div 2
        IN /\ ret.kind = "pair"
           /\ ret.e_l.shape = <<L, K>>
           /\ ret.e_r.shape = <<L, K>>
           /\ \A l \in 1..L : \A k \in 1..K :
                (k - 1) >= self.num_tunable[l] =>
                    ret.e_l.data[l][k] = 0 /\ ret.e_r.data[l][k] = 0
           /\ self.bs_error.kind = "array" =>
                /\ \A l \in 1..L : \A k \in 1..K :
                     /\ ret.e_l.data[l][k] =
                            self.bs_error.arr.data[l][k] * self.mask.data[l][k]
                     /\ ret.e_r.data[l][k] = ret.e_l.data[l][k]
                /\ objs[call.m] = self

\* a single array of the mask's shape, one of its slots tunable and one not
C4_Witness ==
    /\ AccessReturned
    /\ call.pre.bs_error.kind = "array"
    /\ call.pre.num_tunable = <<1, 2>>
    /\ ret.e_l.data[1] = <<call.pre.bs_error.arr.data[1][1], 0>>
    /\ ret.e_l.data[1][1] # 0
    /\ ret.e_r.data[2] = call.pre.bs_error.arr.data[2]

BsErrorsForTensors(L, K) ==
    {Scalar(0), Scalar(1), Scalar(2), OtherValue,
     Ndarray(ErrorArray(L, K, 0)), Ndarray(ErrorArray(L, K + 1, 0)),
     Pair(ErrorArray(L, K, 0), ErrorArray(L, K, 1))}

CtorArgsForTensors(L, N) ==
    UNION {{[rows |-> L + 1, cols |-> N, num_tunable |-> nt, bs_error |-> e,
             testing |-> f[1], use_different_errors |-> f[2]] :
                nt \in {NoneVal} \cup {Some([l \in 1..L |-> t]) : t \in 0..(N \div 2)},
                f \in FlagsFor(e)} :
           e \in BsErrorsForTensors(L, N \div 2)}

ConstructForTensors ==
    /\ call = NoCall
    /\ \E L \in 1..MaxLayers, N \in 2..MaxUnits :
         \E a \in CtorArgsForTensors(L, N) : Construct(1, a)

NextTensors ==
    \/ ConstructForTensors
    \/ Tensors(1)

SpecTensors == Init /\ [][NextTensors]_vars

TensorsReturned ==
    call.op = "mzi_error_tensors" /\ raised = NoErr

(***************************************************************************)
(* C9: mzi_error_tensors returns (ss, cs, sc, cc) in that order; in each   *)
(* name the first letter is the function applied to pi/4 + e_l, the second *)
(* the one applied to pi/4 + e_r; each product is doubled and laid out on  *)
(* the two ports of its device; where e_l = e_r = 0 all four are 1.        *)
(***************************************************************************)
C9_TensorOrderAndValues ==
    TensorsReturned =>
        LET self == call.pre
            L == self.num_layers
            K == self.units \div 2
            e_l == call.locals.e_l.data
            e_r == call.locals.e_r.data
            ss == ret.out[1].data
            cs == ret.out[2].data
            sc == ret.out[3].data
            cc == ret.out[4].data
        IN /\ Len(ret.out) = 4
           /\ \A i \in 1..4 : ret.out[i].shape = <<L, self.units>>
           /\ \A l \in 1..L : \A k \in 1..K : \A n \in {2 * k - 1, 2 * k} :
                LET sl == SinQ(1 + e_l[l][k])
                    cl == CosQ(1 + e_l[l][k])
                    sr == SinQ(1 + e_r[l][k])
                    cr == CosQ(1 + e_r[l][k])
                IN /\ ss[l][n] = RMul(RTwo, RMul(sl, sr))
                   /\ cs[l][n] = RMul(RTwo, RMul(cl, sr))
                   /\ sc[l][n] = RMul(RTwo, RMul(sl, cr))
                   /\ cc[l][n] = RMul(RTwo, RMul(cl, cr))
                   /\ (e_l[l][k] = 0 /\ e_r[l][k] = 0) =>
                        /\ ss[l][n] = [sg |-> 1, num |-> 1, den |-> 1]
                        /\ cs[l][n] = [sg |-> 1, num |-> 1, den |-> 1]
                        /\ sc[l][n] = [sg |-> 1, num |-> 1, den |-> 1]
                        /\ cc[l][n] = [sg |-> 1, num |-> 1, den |-> 1]

\* a device with e_l # e_r, where cs and sc differ, beside one with no error
C9_Witness ==
    /\ TensorsReturned
    /\ call.pre.units = 4
    /\ call.locals.e_l.data[1] = <<1, 0>>
    /\ call.locals.e_r.data[1] = <<-2, 0>>
    /\ ret.out[2].data[1][1] # ret.out[3].data[1][1]
    /\ ret.out[1].data[1][3] = ROne
    /\ ret.out[4].data[1][4] = ROne

(***************************************************************************)
(* The program that shares the random source: the mesh under test in slot  *)
(* 1 and another mesh in slot 2, both with a scalar bs_error, read in any  *)
(* order, between draws and reseeds made elsewhere in the process.         *)
(***************************************************************************)
ScalarArgs(L, N, v, t, d) ==
    [rows |-> L + 1, cols |-> N, num_tunable |-> NoneVal, bs_error |-> Scalar(v),
     testing |-> t, use_different_errors |-> d]

ConstructUnderTest ==
    \E L \in 1..MaxLayers, N \in 2..MaxUnits, v \in {1, 2}, t \in BOOLEAN, d \in BOOLEAN :
        Construct(1, ScalarArgs(L, N, v, t, d))

ConstructOther ==
    \E t \in BOOLEAN, d \in BOOLEAN : Construct(2, ScalarArgs(1, 2, 1, t, d))

\* np.random.randn() somewhere else in the process
OtherDraw ==
    /\ rng' = RngNext(rng)
    /\ UNCHANGED <<objs, call, ret, raised, thr>>

\* np.random.seed(x) somewhere else in the process
OtherSeed ==
    /\ \E x \in {0, 1, TEST_SEED + 1} : rng' = RngSeed(x)
    /\ UNCHANGED <<objs, call, ret, raised, thr>>

NextRng ==
    \/ ConstructUnderTest
    \/ ConstructOther
    \/ \E m \in ModelIds : Access(m)
    \/ OtherDraw
    \/ OtherSeed

SpecRng == Init /\ [][NextRng]_vars

\* sample number n of the stream that follows np.random.seed(seed)
StreamAfterSeed(seed, n) == Sample(RngIter(seed % RngMod, n))

(***************************************************************************)
(* C3: with testing set and a scalar bs_error every access returns the     *)
(* same pair, whatever the random source held before and whatever was      *)
(* drawn in between: e_l is the draw that follows seeding with TEST_SEED;  *)
(* e_r is e_l, or with use_different_errors the draw that follows seeding  *)
(* with TEST_SEED + 1.                                                     *)
(***************************************************************************)
C3_TestingAccessIsDeterministic ==
    (/\ AccessReturned
     /\ call.pre.testing
     /\ call.pre.bs_error.kind = "scalar") =>
        LET self == call.pre
            L == self.num_layers
            K == self.units \div 2
            v == self.bs_error.v
        IN \A l \in 1..L : \A k \in 1..K :
             LET n == (l - 1) * K + k
             IN /\ ret.e_l.data[l][k] =
                       StreamAfterSeed(TEST_SEED, n) * v * self.mask.data[l][k]
                /\ ret.e_r.data[l][k] =
                       IF self.use_different_errors
                       THEN StreamAfterSeed(TEST_SEED + 1, n) * v * self.mask.data[l][k]
                       ELSE ret.e_l.data[l][k]

\* an access with use_different_errors, next to another mesh, that found the
\* source in a state neither seeding leaves it in, and returned e_l # e_r
C3_Witness ==
    /\ AccessReturned
    /\ call.m = 1
    /\ objs[2] # NoObj
    /\ call.pre.testing
    /\ call.pre.use_different_errors
    /\ call.pre.units = 4
    /\ call.rng0 \notin {RngSeed(TEST_SEED), RngSeed(TEST_SEED + 1)}
    /\ ret.e_l # ret.e_r

(***************************************************************************)
(* Two threads, thread t reading mzi_error_matrices of the mesh in slot t, *)
(* with no lock around the random source. Each call into np.random is one  *)
(* step; a thread is at the line it runs next. `dirty` records that        *)
(* another thread seeded or drew while this thread stood between a         *)
(* seeding and the draw that follows it.                                   *)
(***************************************************************************)
ThreadStart ==
    [pc |-> "line86", e_l |-> NoRet, e_r |-> NoRet, result |-> NoRet, dirty |-> FALSE]

\* the other threads as they stand after thread t touched the random source
Disturb(t) ==
    [u \in Threads |->
        IF u # t /\ thr[u].pc \in {"line90", "line94"}
        THEN [thr[u] EXCEPT !.dirty = TRUE]
        ELSE thr[u]]

\* lines 86-87
ThreadSeed(t) ==
    /\ thr[t].pc = "line86"
    /\ rng' = SeedIfTesting(objs[t], rng)
    /\ thr' = [Disturb(t) EXCEPT ![t].pc = "line90"]
    /\ UNCHANGED <<objs, call, ret, raised>>

\* lines 90-91
ThreadDrawLeft(t) ==
    /\ thr[t].pc = "line90"
    /\ LET self == objs[t]
           d == Randn(rng, self.num_layers, self.units \div 2)
       IN /\ rng' = d.rng
          /\ thr' = [Disturb(t) EXCEPT
                        ![t].e_l = ScaleArr(d.arr, self.bs_error.v),
                        ![t].pc = IF self.use_different_errors THEN "line92" ELSE "line96"]
    /\ UNCHANGED <<objs, call, ret, raised>>

\* lines 92-93
ThreadReseed(t) ==
    /\ thr[t].pc = "line92"
    /\ rng' = ReseedIfTesting(objs[t], rng)
    /\ thr' = [Disturb(t) EXCEPT ![t].pc = "line94"]
    /\ UNCHANGED <<objs, call, ret, raised>>

\* line 94
ThreadDrawRight(t) ==
    /\ thr[t].pc = "line94"
    /\ LET self == objs[t]
           d == Randn(rng, self.num_layers, self.units \div 2)
       IN /\ rng' = d.rng
          /\ thr' = [Disturb(t) EXCEPT
                        ![t].e_r = ScaleArr(d.arr, self.bs_error.v),
                        ![t].pc = "line107"]
    /\ UNCHANGED <<objs, call, ret, raised>>

\* line 96
ThreadCopyLeft(t) ==
    /\ thr[t].pc = "line96"
    /\ thr' = [thr EXCEPT ![t].e_r = thr[t].e_l, ![t].pc = "line107"]
    /\ UNCHANGED <<objs, rng, call, ret, raised>>

\* line 107
ThreadReturn(t) ==
    /\ thr[t].pc = "line107"
    /\ thr' = [thr EXCEPT
                  ![t].result = ErrorPair(Masked(thr[t].e_l, objs[t].mask),
                                          Masked(thr[t].e_r, objs[t].mask)),
                  ![t].e_l = NoRet,
                  ![t].e_r = NoRet,
                  ![t].pc = "done"]
    /\ UNCHANGED <<objs, rng, call, ret, raised>>

\* testing-mode meshes with a nonzero scalar bs_error
ThreadMeshes ==
    {MeshModelInit(ScalarArgs(L, N, v, TRUE, d)).obj :
        L \in 1..MaxLayers, N \in 2..MaxUnits, v \in {1, 2}, d \in BOOLEAN}

InitThreads ==
    /\ objs \in [ModelIds -> ThreadMeshes]
    /\ objs[2].num_layers = 1
    /\ objs[2].units = 2
    /\ rng \in 0..(RngMod - 1)
    /\ call = NoCall
    /\ ret = NoRet
    /\ raised = NoErr
    /\ thr = [t \in Threads |-> ThreadStart]

NextThreads ==
    \E t \in Threads :
        \/ ThreadSeed(t)
        \/ ThreadDrawLeft(t)
        \/ ThreadReseed(t)
        \/ ThreadDrawRight(t)
        \/ ThreadCopyLeft(t)
        \/ ThreadReturn(t)

SpecThreads == InitThreads /\ [][NextThreads]_vars

\* the pair the access of thread t returns when it runs alone
Sequential(t) == MziErrorMatrices(objs[t], 0).ret

(***************************************************************************)
(* C10: testing-mode reproducibility does not survive interleaving. A      *)
(* thread returns another pair than the one it returns when the accesses   *)
(* run one after the other only if the other thread reseeded or drew       *)
(* between this thread's reseed and its draw; and such a run exists (the   *)
(* witness).                                                               *)
(***************************************************************************)
C10_WrongPairOnlyWhenInterleaved ==
    \A t \in Threads :
        (thr[t].pc = "done" /\ thr[t].result # Sequential(t)) => thr[t].dirty

\* both threads returned, and thread 1 returned another pair than it does alone
C10_Witness ==
    /\ \A t \in Threads : thr[t].pc = "done"
    /\ thr[1].result # Sequential(1)
    /\ thr[1].result.e_l.shape = Sequential(1).e_l.shape
    /\ objs[1].testing /\ objs[2].testing
    /\ objs[1].bs_error.v # 0

(***************************************************************************)
(* The topology variants. The permutation providers and the block-sizing   *)
(* heuristics live in helpers: of a permutation only the shape is read     *)
(* here, and a heuristic is a call whose answer the environment chooses.   *)
(***************************************************************************)
\* helpers.grid_permutation(units, num_layers).shape
GridPermutationShape(units, num_layers) == <<num_layers + 1, units>>

RECURSIVE SumSeq(_)
SumSeq(q) ==
    IF q = <<>> THEN 0 ELSE Head(q) + SumSeq(Tail(q))

\* helpers.prm_permutation(units, tunable_block_sizes, ...).shape
PrmPermutationShape(units, tunable_block_sizes) ==
    <<SumSeq(tunable_block_sizes) + 1, units>>

\* np.arange(start, stop, step)
Arange(start, stop, step) ==
    LET n == IF step > 0
             THEN Max(0, (stop - start + step - 1) \div step)
             ELSE Max(0, (start - stop - step - 1) \div (-step))
    IN [i \in 1..n |-> start + (i - 1) * step]

\* what a[1::2] = x assigns: the entries at the odd 0-based indices
AssignOddIndices(a, x) ==
    [i \in 1..Len(a) |-> IF (i - 1) % 2 = 1 THEN x ELSE a[i]]

\* faulty variant: line 148 left out
RectangularNumMzisUniform(units, num_layers) ==
    [l \in 1..num_layers |-> units \div 2]

\* lines 147-148
RectangularNumMzis(units, num_layers) ==
    AssignOddIndices([l \in 1..num_layers |-> units \div 2], (units - 1) \div 2)

\* faulty variant: v // 2 for (v + 1) // 2
TriangularNumMzisFloor(units) ==
    LET v == Arange(1, units, 1) \o Arange(units - 2, 0, -1)
    IN [l \in 1..Len(v) |-> v[l] \div 2]

\* line 183
TriangularNumMzis(units) ==
    LET v == Arange(1, units, 1) \o Arange(units - 2, 0, -1)
    IN [l \in 1..Len(v) |-> (v[l] + 1) \div 2]

\* lines 263-264: the counts of one block
BlockNumMzis(units, block_size) ==
    AssignOddIndices([l \in 1..block_size |-> units \div 2], (units - 1) \div 2)

\* faulty variant: the alternation carried on across the blocks
PermutingNumMzisContinued(units, block_sizes) ==
    BlockNumMzis(units, SumSeq(block_sizes))

\* lines 261-265: np.hstack of the blocks' counts
RECURSIVE PermutingNumMzis(_, _)
PermutingNumMzis(units, block_sizes) ==
    IF block_sizes = <<>>
    THEN <<>>
    ELSE BlockNumMzis(units, Head(block_sizes))
            \o PermutingNumMzis(units, Tail(block_sizes))

\* lines 251-259: where the block sizes come from
BlockSizesSource(tunable_layers_per_block, num_tunable_layers_list, sampling_frequencies) ==
    IF tunable_layers_per_block # NoneVal
    THEN "get_efficient_coarse_grain_block_sizes"
    ELSE IF sampling_frequencies = NoneVal \/ num_tunable_layers_list = NoneVal
    THEN "get_default_coarse_grain_block_sizes"
    ELSE "explicit"

\* the arguments the variants pass on to MeshModel.__init__
BaseArgs(shape, num_mzis) ==
    [rows |-> shape[1], cols |-> shape[2], num_tunable |-> Some(num_mzis),
     bs_error |-> Scalar(0), testing |-> FALSE, use_different_errors |-> FALSE]

\* RectangularMeshModel(units, num_layers): a num_layers of None or 0 is falsy
ConstructRectangular(m) ==
    /\ call = NoCall
    /\ \E units \in 1..MaxUnits,
          given \in {NoneVal} \cup {Some(n) : n \in 1..(MaxLayers + 1)} :
         LET num_layers == IF given # NoneVal /\ given.v # 0 THEN given.v ELSE units
             num_mzis == RectangularNumMzis(units, num_layers)
             r == MeshModelInit(BaseArgs(GridPermutationShape(units, num_layers), num_mzis))
         IN /\ objs' = [objs EXCEPT ![m] = r.obj]
            /\ raised' = r.raised
            /\ call' = [op |-> "RectangularMeshModel", m |-> m,
                        args |-> [units |-> units, num_layers |-> given],
                        request |-> [fn |-> "grid_permutation", units |-> units,
                                     num_layers |-> num_layers],
                        num_mzis |-> num_mzis]
    /\ ret' = NoRet
    /\ UNCHANGED <<rng, thr>>

\* TriangularMeshModel(units)
ConstructTriangular(m) ==
    /\ call = NoCall
    /\ \E units \in 2..(MaxUnits + 1) :
         LET num_mzis == TriangularNumMzis(units)
             r == MeshModelInit(BaseArgs(GridPermutationShape(units, 2 * units - 3), num_mzis))
         IN /\ objs' = [objs EXCEPT ![m] = r.obj]
            /\ raised' = r.raised
            /\ call' = [op |-> "TriangularMeshModel", m |-> m,
                        args |-> [units |-> units],
                        request |-> [fn |-> "grid_permutation", units |-> units,
                                     num_layers |-> 2 * units - 3],
                        num_mzis |-> num_mzis]
    /\ ret' = NoRet
    /\ UNCHANGED <<rng, thr>>

\* lists of block sizes
BlockLists ==
    UNION {[1..n -> 1..MaxBlockSize] : n \in 1..MaxBlocks}

\* PermutingRectangularMeshModel(units, tunable_layers_per_block,
\* num_tunable_layers_list, sampling_frequencies); `answer` is what the
\* heuristic that gets called returns
ConstructPermutingRectangular(m) ==
    /\ call = NoCall
    /\ \E units \in 2..MaxUnits,
          tunable_layers_per_block \in {NoneVal, Some(0), Some(2)},
          num_tunable_layers_list \in {NoneVal} \cup {Some(b) : b \in BlockLists},
          sampling_frequencies \in {NoneVal, Some(<<2>>)},
          answer \in BlockLists :
         LET source == BlockSizesSource(tunable_layers_per_block,
                                        num_tunable_layers_list, sampling_frequencies)
             block_sizes == IF source = "explicit"
                            THEN num_tunable_layers_list.v
                            ELSE answer
             num_mzis == PermutingNumMzis(units, block_sizes)
             r == MeshModelInit(BaseArgs(PrmPermutationShape(units, block_sizes), num_mzis))
         IN /\ objs' = [objs EXCEPT ![m] = r.obj]
            /\ raised' = r.raised
            /\ call' = [op |-> "PermutingRectangularMeshModel", m |-> m,
                        args |-> [units |-> units,
                                  tunable_layers_per_block |-> tunable_layers_per_block,
                                  num_tunable_layers_list |-> num_tunable_layers_list,
                                  sampling_frequencies |-> sampling_frequencies],
                        heuristic |-> [fn |-> source,
                                       answer |-> IF source = "explicit"
                                                  THEN <<>> ELSE answer],
                        block_sizes |-> block_sizes,
                        num_mzis |-> num_mzis]
    /\ ret' = NoRet
    /\ UNCHANGED <<rng, thr>>

NextTopo ==
    \/ ConstructRectangular(1)
    \/ ConstructTriangular(1)
    \/ ConstructPermutingRectangular(1)

SpecTopo == InitCtor /\ [][NextTopo]_vars

(***************************************************************************)
(* C6: for units N >= 2 RectangularMeshModel has L = num_layers layers     *)
(* (L = N when num_layers is not given); its tunable counts are            *)
(* floor(N/2) at the even layers and floor((N-1)/2) at the odd layers, L   *)
(* of them, none above floor(N/2); for N = 4 layers 0 and 1 get 2 and 1.   *)
(***************************************************************************)
C6_RectangularCounts ==
    (call.op = "RectangularMeshModel" /\ call.args.units >= 2) =>
        LET N == call.args.units
            L == IF call.args.num_layers = NoneVal THEN N ELSE call.args.num_layers.v
            self == objs[call.m]
        IN /\ raised = NoErr
           /\ self.units = N
           /\ self.num_layers = L
           /\ Len(self.num_tunable) = L
           /\ \A l \in 1..L :
                /\ (l - 1) % 2 = 0 => self.num_tunable[l] = N \div 2
                /\ (l - 1) % 2 = 1 => self.num_tunable[l] = (N - 1) \div 2
                /\ self.num_tunable[l] <= N \div 2
           /\ N = 4 => self.num_tunable[1] = 2 /\ (L >= 2 => self.num_tunable[2] = 1)

\* units = 4 with three layers: counts 2, 1, 2
C6_Witness ==
    /\ call.op = "RectangularMeshModel"
    /\ call.args.units = 4
    /\ call.args.num_layers = Some(3)
    /\ raised = NoErr
    /\ objs[call.m].num_tunable = <<2, 1, 2>>

(***************************************************************************)
(* C7: for units N >= 2 TriangularMeshModel asks for a grid permutation of *)
(* depth 2N - 3 and has 2N - 3 tunable counts, count l being ceil(v_l / 2) *)
(* for v = 1..N-1 followed by N-2..1; the counts are symmetric, none is    *)
(* above floor(N/2), and there are L of them, so the constructor's length  *)
(* check passes; units = 5 gives [1,1,2,2,2,1,1].                          *)
(***************************************************************************)
C7_TriangularCounts ==
    (call.op = "TriangularMeshModel" /\ call.args.units >= 2) =>
        LET N == call.args.units
            D == 2 * N - 3
            c == call.num_mzis
            v(l) == IF l <= N - 1 THEN l ELSE 2 * N - 2 - l
        IN /\ call.request = [fn |-> "grid_permutation", units |-> N, num_layers |-> D]
           /\ Len(c) = D
           /\ \A l \in 1..D :
                /\ 2 * c[l] >= v(l)
                /\ 2 * (c[l] - 1) < v(l)
                /\ c[l] = c[D + 1 - l]
                /\ c[l] <= N \div 2
           /\ raised = NoErr
           /\ objs[call.m].num_layers = D
           /\ objs[call.m].num_tunable = c
           /\ N = 5 => c = <<1, 1, 2, 2, 2, 1, 1>>

C7_Witness ==
    /\ call.op = "TriangularMeshModel"
    /\ call.args.units = 5
    /\ raised = NoErr
    /\ objs[call.m].num_layers = 7
    /\ objs[call.m].num_tunable = <<1, 1, 2, 2, 2, 1, 1>>

\* the first position (1-based) of block b in the concatenated array, less 1
BlockOffset(sizes, b) == SumSeq(SubSeq(sizes, 1, b - 1))

(***************************************************************************)
(* C8: PermutingRectangularMeshModel emits, block after block, B counts    *)
(* for a block of size B, floor(N/2) at the even and floor((N-1)/2) at the *)
(* odd positions within the block, so the array is as long as the sum of   *)
(* the block sizes. The block sizes are the efficient heuristic's whenever *)
(* tunable_layers_per_block is given, the explicit list when it is absent  *)
(* and both lists are given, the default heuristic's otherwise.            *)
(***************************************************************************)
C8_PermutingCounts ==
    call.op = "PermutingRectangularMeshModel" =>
        LET N == call.args.units
            a == call.args
            sizes == call.block_sizes
            c == call.num_mzis
        IN /\ Len(c) = SumSeq(sizes)
           /\ \A b \in 1..Len(sizes) : \A i \in 1..sizes[b] :
                c[BlockOffset(sizes, b) + i] =
                    IF (i - 1) % 2 = 0 THEN N \div 2 ELSE (N - 1) \div 2
           /\ a.tunable_layers_per_block # NoneVal =>
                /\ call.heuristic.fn = "get_efficient_coarse_grain_block_sizes"
                /\ sizes = call.heuristic.answer
           /\ (/\ a.tunable_layers_per_block = NoneVal
               /\ a.num_tunable_layers_list # NoneVal
               /\ a.sampling_frequencies # NoneVal) =>
                /\ call.heuristic.fn = "explicit"
                /\ sizes = a.num_tunable_layers_list.v
           /\ (/\ a.tunable_layers_per_block = NoneVal
               /\ (a.num_tunable_layers_list = NoneVal \/ a.sampling_frequencies = NoneVal)) =>
                /\ call.heuristic.fn = "get_default_coarse_grain_block_sizes"
                /\ sizes = call.heuristic.answer

\* an odd block before another block: the second block starts over at floor(N/2)
C8_Witness ==
    /\ call.op = "PermutingRectangularMeshModel"
    /\ call.args.units = 4
    /\ call.args.tunable_layers_per_block = NoneVal
    /\ call.args.num_tunable_layers_list = Some(<<1, 2>>)
    /\ call.args.sampling_frequencies = NoneVal
    /\ call.heuristic.fn = "get_default_coarse_grain_block_sizes"
    /\ call.block_sizes = <<3, 2>>
    /\ call.num_mzis = <<2, 1, 2, 2, 1>>
    /\ raised = NoErr

====
